---- MODULE Spec2Model ----
(***************************************************************************)
(* Model of src/app.py: a single-user work-hour and salary tracker.        *)
(* State: the work_entries table, its AUTOINCREMENT counter, the           *)
(* default_hourly_rate setting, the web session, the API token set and the *)
(* wall clock.  One action per request handler.                            *)
(*                                                                         *)
(* Representation.                                                         *)
(*   - A string is the sequence of its characters, a character being its   *)
(*     code point minus the code point of "0": digits are 0..9, "-" is -3  *)
(*     and ":" is 10.  SQLite and Python compare strings code point by     *)
(*     code point, which StrLe does.                                       *)
(*   - hours, rates and salaries are counted in hundredths (REAL columns   *)
(*     holding values rounded to 2 decimals).                              *)
(*   - SQL NULL / Python None is NULL for TEXT columns and NONE for REAL   *)
(*     columns.                                                            *)
(***************************************************************************)
EXTENDS Integers, Sequences, FiniteSets, TLC

\* ------------------------------------------------------------------ bounds
\* Rows ever inserted into work_entries (AUTOINCREMENT ids 1..MaxRows).
MaxRows == 2
\* Days the clock may move past StartDate.
MaxDays == 1
\* Distinct bearer tokens secrets.token_hex may return.
MaxTokens == 2

\* ------------------------------------------------------------- null values
NULL == <<>>
NONE == -1

\* ----------------------------------------------------------------- strings
DASH == -3
COLON == 10

RECURSIVE StrLt(_, _)
\* s < t as Python and SQLite (BINARY collation) order strings
StrLt(s, t) ==
    IF t = <<>> THEN FALSE
    ELSE IF s = <<>> THEN TRUE
    ELSE IF Head(s) # Head(t) THEN Head(s) < Head(t)
    ELSE StrLt(Tail(s), Tail(t))

StrLe(s, t) == s = t \/ StrLt(s, t)

\* x BETWEEN lo AND hi
Between(x, lo, hi) == StrLe(lo, x) /\ StrLe(x, hi)

\* --------------------------------------------------------- datetime.date
\* A date is <<year, month, day>>.
IsLeap(y) == (y % 4 = 0) /\ ((y % 100 # 0) \/ (y % 400 = 0))

DaysInMonth(y, m) ==
    IF m = 2 THEN (IF IsLeap(y) THEN 29 ELSE 28)
    ELSE IF m \in {4, 6, 9, 11} THEN 30 ELSE 31

NextDay(d) ==
    IF d[3] < DaysInMonth(d[1], d[2]) THEN <<d[1], d[2], d[3] + 1>>
    ELSE IF d[2] < 12 THEN <<d[1], d[2] + 1, 1>>
    ELSE <<d[1] + 1, 1, 1>>

PrevDay(d) ==
    IF d[3] > 1 THEN <<d[1], d[2], d[3] - 1>>
    ELSE IF d[2] > 1 THEN <<d[1], d[2] - 1, DaysInMonth(d[1], d[2] - 1)>>
    ELSE <<d[1] - 1, 12, 31>>

RECURSIVE AddDays(_, _)
\* d + timedelta(days=n), n may be negative
AddDays(d, n) ==
    IF n = 0 THEN d
    ELSE IF n > 0 THEN AddDays(NextDay(d), n - 1)
    ELSE AddDays(PrevDay(d), n + 1)

\* d.replace(day=k)
ReplaceDay(d, k) == <<d[1], d[2], k>>

\* d.isoformat(): "YYYY-MM-DD", zero padded
IsoFormat(d) ==
    << (d[1] \div 1000) % 10, (d[1] \div 100) % 10, (d[1] \div 10) % 10, d[1] % 10,
       DASH, d[2] \div 10, d[2] % 10, DASH, d[3] \div 10, d[3] % 10 >>

\* ------------------------------------------------------- time of day
\* datetime.now().strftime("%H:%M") for a clock at `mins` minutes past midnight
StrfTime(mins) ==
    << (mins \div 60) \div 10, (mins \div 60) % 10, COLON,
       (mins % 60) \div 10, (mins % 60) % 10 >>

\* datetime.strptime(s, "%H:%M"), as minutes past midnight of 1900-01-01
StrpTime(s) == (s[1] * 10 + s[2]) * 60 + s[4] * 10 + s[5]

\* round(n / d) to the nearest integer, ties to even (Python's round)
RoundDiv(n, d) ==
    LET q == n \div d
        r == n % d
    IN  IF 2 * r < d THEN q
        ELSE IF 2 * r > d THEN q + 1
        ELSE IF q % 2 = 0 THEN q ELSE q + 1

\* Mutant: the rollover test written end_dt <= start_dt.
compute_total_hours_le(check_in_str, check_out_str) ==
    LET start_dt == StrpTime(check_in_str)
        end0     == StrpTime(check_out_str)
        end_dt   == IF end0 <= start_dt THEN end0 + 1440 ELSE end0
        delta    == end_dt - start_dt
    IN  RoundDiv(delta * 100, 60)

\* compute_total_hours, in hundredths of an hour
compute_total_hours(check_in_str, check_out_str) ==
    LET start_dt == StrpTime(check_in_str)
        end0     == StrpTime(check_out_str)
        end_dt   == IF end0 < start_dt THEN end0 + 1440 ELSE end0
        delta    == end_dt - start_dt
    IN  RoundDiv(delta * 100, 60)

\* round(total_hours * hourly_rate, 2), all in hundredths
daily_salary_of(total_hours, hourly_rate) == RoundDiv(total_hours * hourly_rate, 100)

\* ------------------------------------------------------------------ inputs
\* The day the process starts on; the clock runs over StartDate .. StartDate + MaxDays.
StartDate == <<2024, 2, 29>>
\* Clock readings (minutes past midnight) the requests arrive at: 09:00 and 17:00.
ClockTimes == {540, 1020}
\* Parseable hourly rates a form may carry (0.00 and 5.00), in hundredths.
Rates == {0, 500}
\* hourly_rate form values: a parseable rate, or NONE for text float() rejects.
FormRates == Rates \cup {NONE}
\* check_in form values: "" (stored as NULL) or "17:00"
FormCheckIns == {NULL, StrfTime(1020)}
\* check_out form values: "" (stored as NULL) or "09:00", which is earlier than
\* the check_in a form may carry and later than no clock reading
FormCheckOuts == {NULL, StrfTime(540)}
\* hourly_rate values of a record form: 0, or text float() rejects
RecordRates == {0, NONE}
\* work_date form values
FormDates == {IsoFormat(AddDays(StartDate, k)) : k \in 0..MaxDays}
\* record ids a request may name: every id ever issued, and one never issued
RecordIds == 1..(MaxRows + 1)
\* bearer tokens; header value 0 stands for a missing or empty Authorization header
Tokens == 1..MaxTokens
NoToken == 0
Headers == {NoToken} \cup Tokens

\* ------------------------------------------------------------------- state
VARIABLES
    entries,       \* work_entries: a set of rows, ids unique
    nextId,        \* sqlite_sequence: the id the next INSERT gets
    default_rate,  \* settings["default_hourly_rate"], in hundredths
    session,       \* TRUE iff the web session holds a user_id
    TOKENS,        \* the in-memory API token set
    day,           \* days elapsed since StartDate (date.today())
    now,           \* minutes past midnight (datetime.now())
    resp,          \* the last step (a request or a clock tick) and its outcome
    returned,      \* history: tokens a successful /api/login has returned
    revoked,       \* history: tokens passed to /api/logout since last returned
    calc,          \* the last compute_total_hours call: inputs and result
    requests       \* check-in requests being served side by side, each at its line

vars == <<entries, nextId, default_rate, session, TOKENS, day, now, resp,
          returned, revoked, calc, requests>>

dbvars == <<entries, nextId, default_rate>>
authvars == <<session, TOKENS, returned, revoked>>
clockvars == <<day, now>>

\* ensure_default_settings: the rate written at first start-up, "5.0"
InitialRate == 500

Today == AddDays(StartDate, day)
NowTime == StrfTime(now)

Row(id, work_date, check_in, check_out, total_hours, hourly_rate, daily_salary) ==
    [id |-> id, work_date |-> work_date, check_in |-> check_in,
     check_out |-> check_out, total_hours |-> total_hours,
     hourly_rate |-> hourly_rate, daily_salary |-> daily_salary]

\* fetchone() returning None
NoRow == Row(0, NULL, NULL, NULL, NONE, NONE, NONE)

\* a request and its outcome: the handler, the outcome, the row id it named or
\* wrote (0: none), its argument (a form, a month parameter or a bearer token)
\* and the report it carries, if any
NoForm == <<>>
NoReport == [start |-> NULL, end |-> NULL, rows |-> <<>>, total_hours |-> 0, total_salary |-> 0]
NoCalc == [check_in |-> NULL, check_out |-> NULL, hours |-> NONE]
\* a response carrying a report as its body
RespBody(op, status, id, arg, body) ==
    [op |-> op, status |-> status, id |-> id, arg |-> arg, body |-> body]
Resp(op, status, id, arg) == RespBody(op, status, id, arg, NoReport)

\* the two check-in requests that may be served at the same time
Requests == {1, 2}
\* a request not yet received: no line of its handler has run
NoRequest == [pc |-> "idle", op |-> "none", today |-> NULL, now_time |-> NULL,
              default_rate |-> NONE, status |-> "none", id |-> 0]

Ids(tbl) == {r.id : r \in tbl}
RowOf(tbl, id) == CHOOSE r \in tbl : r.id = id

\* the state create_app() leaves: empty tables but for the default rate, no
\* session, no token
Started ==
    /\ entries = {}
    /\ nextId = 1
    /\ default_rate = InitialRate
    /\ session = FALSE
    /\ TOKENS = {}
    /\ day = 0
    /\ now \in ClockTimes
    /\ resp = Resp("start", "ok", 0, NoForm)
    /\ returned = {}
    /\ revoked = {}
    /\ requests = [r \in Requests |-> NoRequest]

Init == Started /\ calc = NoCalc

\* ------------------------------------------------------------ the clock
Tick ==
    /\ \/ /\ day' = day
          /\ now' \in {t \in ClockTimes : t > now}
       \/ /\ day < MaxDays
          /\ day' = day + 1
          /\ now' \in ClockTimes
    /\ resp' = Resp("tick", "ok", 0, NoForm)
    /\ UNCHANGED <<dbvars, authvars, calc, requests>>

\* ------------------------------------------------------------ queries
\* Mutant: the NULL test flipped (check_out IS NOT NULL).
open_entry_not_null(tbl, target_date) ==
    LET rows == {r \in tbl : r.work_date = IsoFormat(target_date) /\ r.check_out # NULL}
    IN  IF rows = {} THEN NoRow
        ELSE CHOOSE r \in rows : \A q \in rows : q.id <= r.id

\* Mutant: the work_date = ? condition dropped.
open_entry_any_date(tbl, target_date) ==
    LET open == {r \in tbl : r.check_out = NULL}
    IN  IF open = {} THEN NoRow
        ELSE CHOOSE r \in open : \A q \in open : q.id <= r.id

\* SELECT * FROM work_entries WHERE work_date = ? AND check_out IS NULL
\* ORDER BY id DESC LIMIT 1
open_entry_for_date(tbl, target_date) ==
    LET open == {r \in tbl : r.work_date = IsoFormat(target_date) /\ r.check_out = NULL}
    IN  IF open = {} THEN NoRow
        ELSE CHOOSE r \in open : \A q \in open : q.id <= r.id

\* SELECT * FROM work_entries WHERE work_date = ? ORDER BY id DESC LIMIT 1
get_today_entry(tbl, today) ==
    LET rows == {r \in tbl : r.work_date = IsoFormat(today)}
    IN  IF rows = {} THEN NoRow
        ELSE CHOOSE r \in rows : \A q \in rows : q.id <= r.id

\* Python truthiness of a fetched row: None is false, a Row of 7 columns is true
Truthy(row) == row # NoRow

\* x or y, for a REAL column value x: None and 0.0 are both false
OrElse(x, y) == IF x = NONE \/ x = 0 THEN y ELSE x

\* ------------------------------------------------------- row construction
\* INSERT INTO work_entries (work_date, check_in, hourly_rate) VALUES (?, ?, ?)
checked_in_row(id, today, now_time, rate) ==
    Row(id, IsoFormat(today), now_time, NULL, NONE, rate, NONE)

\* float(open_entry["hourly_rate"] or (get_setting("default_hourly_rate") or 0))
check_out_rate(open_entry, setting) == OrElse(open_entry.hourly_rate, setting)

\* UPDATE work_entries SET check_out = ?, total_hours = ?, daily_salary = ? WHERE id = ?
checked_out_row(open_entry, now_time, setting) ==
    LET total_hours  == compute_total_hours(open_entry.check_in, now_time)
        hourly_rate  == check_out_rate(open_entry, setting)
        daily_salary == daily_salary_of(total_hours, hourly_rate)
    IN  [open_entry EXCEPT !.check_out = now_time,
                           !.total_hours = total_hours,
                           !.daily_salary = daily_salary]

\* the hourly_rate a record form yields: float(form value), or the default
\* rate when float() raises ValueError
form_rate(form, setting) ==
    IF form.hourly_rate = NONE THEN setting ELSE form.hourly_rate

\* the row add_record / edit_record write for a form: hours and salary are
\* computed only `if check_in and check_out`
form_row(id, form, setting) ==
    LET hourly_rate == form_rate(form, setting)
        both        == form.check_in # NULL /\ form.check_out # NULL
        total_hours == IF both THEN compute_total_hours(form.check_in, form.check_out)
                       ELSE NONE
        daily_salary == IF both THEN daily_salary_of(total_hours, hourly_rate) ELSE NONE
    IN  Row(id, form.work_date, form.check_in, form.check_out,
            total_hours, hourly_rate, daily_salary)

\* Mutant: the UPDATE without its WHERE clause: every row gets the new values.
update_every_row(tbl, id, new) == {[new EXCEPT !.id = r.id] : r \in tbl}

\* UPDATE ... WHERE id = ?: the table with the rows of that id replaced
update_row(tbl, id, new) == {IF r.id = id THEN new ELSE r : r \in tbl}

\* Mutant: the DELETE matching every id up to the one named (id <= ?).
delete_rows_upto(tbl, id) == {r \in tbl : r.id > id}

\* DELETE FROM work_entries WHERE id = ?
delete_row(tbl, id) == {r \in tbl : r.id # id}

Forms == [work_date : FormDates, check_in : FormCheckIns, check_out : FormCheckOuts,
          hourly_rate : RecordRates]

\* ------------------------------------------------------------ web surface
\* login_required: without a session user the view is not run
Redirected(op) ==
    /\ ~session
    /\ resp' = Resp(op, "login_required", 0, NoForm)
    /\ UNCHANGED <<dbvars, authvars, clockvars, calc, requests>>

\* POST /login; `good` says whether the user exists and bcrypt.verify accepts
Login(good) ==
    /\ session' = (IF good THEN TRUE ELSE session)
    /\ resp' = Resp("login", IF good THEN "ok" ELSE "InvalidCredentials", 0, NoForm)
    /\ UNCHANGED <<dbvars, TOKENS, returned, revoked, clockvars, calc, requests>>

\* GET /logout
Logout ==
    /\ session' = FALSE
    /\ resp' = Resp("logout", "ok", 0, NoForm)
    /\ UNCHANGED <<dbvars, TOKENS, returned, revoked, clockvars, calc, requests>>

\* POST /settings/rate
UpdateDefaultRate(input) ==
    \/ Redirected("update_default_rate")
    \/ /\ session
       /\ IF input = NONE
          THEN /\ resp' = Resp("update_default_rate", "InvalidInput", 0, <<input>>)
               /\ UNCHANGED default_rate
          ELSE /\ default_rate' = input
               /\ resp' = Resp("update_default_rate", "ok", 0, <<input>>)
       /\ UNCHANGED <<entries, nextId, authvars, clockvars, calc, requests>>

\* POST /check_in
CheckIn ==
    \/ Redirected("check_in")
    \/ /\ session
       /\ LET open_entry == open_entry_for_date(entries, Today)
          IN  IF Truthy(open_entry)
              THEN /\ resp' = Resp("check_in", "AlreadyCheckedIn", 0, NoForm)
                   /\ UNCHANGED <<entries, nextId>>
              ELSE /\ nextId <= MaxRows
                   /\ entries' = entries \cup
                         {checked_in_row(nextId, Today, NowTime, default_rate)}
                   /\ nextId' = nextId + 1
                   /\ resp' = Resp("check_in", "ok", nextId, NoForm)
       /\ UNCHANGED <<default_rate, authvars, clockvars, calc, requests>>

\* POST /check_out
CheckOut ==
    \/ Redirected("check_out")
    \/ /\ session
       /\ LET open_entry == open_entry_for_date(entries, Today)
          IN  IF ~Truthy(open_entry)
              THEN /\ resp' = Resp("check_out", "NoOpenEntry", 0, NoForm)
                   /\ UNCHANGED entries
              ELSE IF open_entry.check_in = NULL
              THEN \* strptime(None, fmt) raises TypeError: 500, nothing written
                   /\ resp' = Resp("check_out", "error", open_entry.id, NoForm)
                   /\ UNCHANGED entries
              ELSE /\ entries' = update_row(entries, open_entry.id,
                                   checked_out_row(open_entry, NowTime, default_rate))
                   /\ resp' = Resp("check_out", "ok", open_entry.id, NoForm)
       /\ UNCHANGED <<nextId, default_rate, authvars, clockvars, calc, requests>>

\* POST /records/add
AddRecord(form) ==
    \/ Redirected("add_record")
    \/ /\ session
       /\ nextId <= MaxRows
       /\ entries' = entries \cup {form_row(nextId, form, default_rate)}
       /\ nextId' = nextId + 1
       /\ resp' = Resp("add_record", "ok", nextId, NoForm)
       /\ UNCHANGED <<default_rate, authvars, clockvars, calc, requests>>

\* POST /records/<id>/edit
EditRecord(record_id, form) ==
    \/ Redirected("edit_record")
    \/ /\ session
       /\ IF record_id \notin Ids(entries)
          THEN /\ resp' = Resp("edit_record", "NotFound", record_id, NoForm)
               /\ UNCHANGED entries
          ELSE /\ entries' = update_row(entries, record_id,
                                        form_row(record_id, form, default_rate))
               /\ resp' = Resp("edit_record", "ok", record_id, form)
       /\ UNCHANGED <<nextId, default_rate, authvars, clockvars, calc, requests>>

\* POST /records/<id>/delete
DeleteRecord(record_id) ==
    \/ Redirected("delete_record")
    \/ /\ session
       /\ entries' = delete_row(entries, record_id)
       /\ resp' = Resp("delete_record", "ok", record_id, NoForm)
       /\ UNCHANGED <<nextId, default_rate, authvars, clockvars, calc, requests>>

\* ---------------------------------------------------------- monthly report
\* datetime.strptime(month + "-01", "%Y-%m-%d").date() for a "YYYY-MM" string:
\* the date, or NULL when strptime raises ValueError (no such month)
parse_month(month) ==
    LET y == month[1] * 1000 + month[2] * 100 + month[3] * 10 + month[4]
        m == month[6] * 10 + month[7]
    IN  IF Len(month) = 7 /\ month[5] = DASH /\ y >= 1 /\ m \in 1..12
        THEN <<y, m, 1>> ELSE NULL

\* the first day of the reported month: the month parameter when it is given
\* and parses, else the current month
report_start(month, today) ==
    IF month # NULL /\ parse_month(month) # NULL
    THEN parse_month(month)
    ELSE ReplaceDay(today, 1)

\* Mutant: timedelta(days=2) in place of timedelta(days=4).
report_end_plus2(start_date) ==
    LET next_month == ReplaceDay(AddDays(ReplaceDay(start_date, 28), 2), 1)
    IN  AddDays(next_month, -1)

\* next_month = (start_date.replace(day=28) + timedelta(days=4)).replace(day=1)
\* end_date = next_month - timedelta(days=1)
report_end(start_date) ==
    LET next_month == ReplaceDay(AddDays(ReplaceDay(start_date, 28), 4), 1)
    IN  AddDays(next_month, -1)

\* WHERE work_date BETWEEN ? AND ?
report_select(tbl, start_date, end_date) ==
    {r \in tbl : Between(r.work_date, IsoFormat(start_date), IsoFormat(end_date))}

RECURSIVE Perms(_)
Perms(S) ==
    IF S = {} THEN {<<>>}
    ELSE UNION {{<<x>> \o q : q \in Perms(S \ {x})} : x \in S}

\* ORDER BY work_date ASC
Ordered(rows) ==
    \A i \in 1..(Len(rows) - 1) : StrLe(rows[i].work_date, rows[i + 1].work_date)

\* the orders the query may return the selected rows in (ties in any order)
report_rows(selected) == {q \in Perms(selected) : Ordered(q)}

\* r[col] or 0
OrZero(x) == IF x = NONE THEN 0 ELSE x

RECURSIVE SumHours(_)
SumHours(rows) ==
    IF rows = <<>> THEN 0 ELSE OrZero(Head(rows).total_hours) + SumHours(Tail(rows))

RECURSIVE SumSalary(_)
SumSalary(rows) ==
    IF rows = <<>> THEN 0 ELSE OrZero(Head(rows).daily_salary) + SumSalary(Tail(rows))

\* the row orders the report query of a month parameter may return
report_query(tbl, month, today) ==
    LET start_date == report_start(month, today)
    IN  report_rows(report_select(tbl, start_date, report_end(start_date)))

\* the report of a month parameter, for the rows as the query returned them
monthly_report(month, today, rows) ==
    LET start_date == report_start(month, today)
        end_date   == report_end(start_date)
    IN  [start |-> IsoFormat(start_date), end |-> IsoFormat(end_date),
         rows |-> rows, total_hours |-> SumHours(rows),
         total_salary |-> SumSalary(rows)]

\* GET /report?month=...
Report(month) ==
    \/ Redirected("report")
    \/ /\ session
       /\ \E rows \in report_query(entries, month, Today) :
              resp' = RespBody("report", "ok", 0, month,
                               monthly_report(month, Today, rows))
       /\ UNCHANGED <<dbvars, authvars, clockvars, calc, requests>>

\* ------------------------------------------------------------- API surface
\* Mutant: any non-empty token is accepted (the `token not in TOKENS` test lost).
require_token_nonempty(header) == header # NoToken

\* require_token: the Authorization header, "Bearer " removed and stripped
require_token(header) == ~(header = NoToken \/ header \notin TOKENS)

Unauthorized(op, header) ==
    /\ ~require_token(header)
    /\ resp' = Resp(op, "unauthorized", 0, header)
    /\ UNCHANGED <<dbvars, authvars, clockvars, calc, requests>>

\* POST /api/login; `token` is what secrets.token_hex(16) returns
ApiLogin(good, token) ==
    /\ IF good
       THEN /\ TOKENS' = TOKENS \cup {token}
            /\ returned' = returned \cup {token}
            /\ revoked' = revoked \ {token}
            /\ resp' = Resp("api_login", "ok", 0, token)
       ELSE /\ resp' = Resp("api_login", "InvalidCredentials", 0, NoToken)
            /\ UNCHANGED <<TOKENS, returned, revoked>>
    /\ UNCHANGED <<dbvars, session, clockvars, calc, requests>>

\* POST /api/logout
ApiLogout(header) ==
    /\ TOKENS' = (IF header \in TOKENS THEN TOKENS \ {header} ELSE TOKENS)
    /\ revoked' = revoked \cup ({header} \cap returned)
    /\ resp' = Resp("api_logout", "ok", 0, header)
    /\ UNCHANGED <<dbvars, session, returned, clockvars, calc, requests>>

\* GET /api/me
ApiMe(header) ==
    \/ Unauthorized("api_me", header)
    \/ /\ require_token(header)
       /\ resp' = Resp("api_me", "ok", 0, header)
       /\ UNCHANGED <<dbvars, authvars, clockvars, calc, requests>>

\* GET /api/today
ApiToday(header) ==
    \/ Unauthorized("api_today", header)
    \/ /\ require_token(header)
       /\ resp' = Resp("api_today", "ok", get_today_entry(entries, Today).id, header)
       /\ UNCHANGED <<dbvars, authvars, clockvars, calc, requests>>

\* POST /api/check-in
ApiCheckIn(header) ==
    \/ Unauthorized("api_check_in", header)
    \/ /\ require_token(header)
       /\ LET open_entry == open_entry_for_date(entries, Today)
          IN  IF Truthy(open_entry)
              THEN /\ resp' = Resp("api_check_in", "AlreadyCheckedIn", 0, header)
                   /\ UNCHANGED <<entries, nextId>>
              ELSE /\ nextId <= MaxRows
                   /\ entries' = entries \cup
                         {checked_in_row(nextId, Today, NowTime, default_rate)}
                   /\ nextId' = nextId + 1
                   /\ resp' = Resp("api_check_in", "ok", nextId, header)
       /\ UNCHANGED <<default_rate, authvars, clockvars, calc, requests>>

\* POST /api/check-out
ApiCheckOut(header) ==
    \/ Unauthorized("api_check_out", header)
    \/ /\ require_token(header)
       /\ LET open_entry == open_entry_for_date(entries, Today)
          IN  IF ~Truthy(open_entry)
              THEN /\ resp' = Resp("api_check_out", "NoOpenEntry", 0, header)
                   /\ UNCHANGED entries
              ELSE IF open_entry.check_in = NULL
              THEN /\ resp' = Resp("api_check_out", "error", open_entry.id, header)
                   /\ UNCHANGED entries
              ELSE /\ entries' = update_row(entries, open_entry.id,
                                   checked_out_row(open_entry, NowTime, default_rate))
                   /\ resp' = Resp("api_check_out", "ok", open_entry.id, header)
       /\ UNCHANGED <<nextId, default_rate, authvars, clockvars, calc, requests>>

\* GET /api/report?month=...
ApiReport(header, month) ==
    \/ Unauthorized("api_report", header)
    \/ /\ require_token(header)
       /\ \E rows \in report_query(entries, month, Today) :
              resp' = RespBody("api_report", "ok", 0, <<header, month>>,
                               monthly_report(month, Today, rows))
       /\ UNCHANGED <<dbvars, authvars, clockvars, calc, requests>>

\* ------------------------------------------ check-in, one line at a time
\* check_in and api_check_in served by concurrent workers: each request runs
\* the handler's lines in order, and the lines of two requests interleave.
\* Every database access of the handler opens and closes its own connection.

\* Mutant: the INSERT is refused while the date has an open entry, as a lock
\* or one transaction around the read and the insert would have it.
insert_entry_unless_open(tbl, row) ==
    IF \E r \in tbl : r.work_date = row.work_date /\ r.check_out = NULL
    THEN tbl ELSE tbl \cup {row}

\* conn.execute("INSERT INTO work_entries ..."), committed on its own
insert_entry(tbl, row) == tbl \cup {row}

\* request r has answered
Answered(r, status, id) ==
    /\ requests' = [requests EXCEPT ![r].pc = "done", ![r].status = status, ![r].id = id]
    /\ resp' = Resp(requests[r].op, status, id, <<r>>)

\* the request arrives: login_required or require_token, then today = date.today()
CheckInBegin(r, op, header) ==
    /\ requests[r].pc = "idle"
    /\ LET allowed == IF op = "check_in" THEN session ELSE require_token(header)
           refusal == IF op = "check_in" THEN "login_required" ELSE "unauthorized"
       IN  IF allowed
           THEN /\ requests' = [requests EXCEPT ![r].pc = "find", ![r].op = op,
                                                ![r].today = Today]
                /\ UNCHANGED resp
           ELSE /\ requests' = [requests EXCEPT ![r].pc = "done", ![r].op = op,
                                                ![r].status = refusal]
                /\ resp' = Resp(op, refusal, 0, <<r>>)
    /\ UNCHANGED <<dbvars, authvars, clockvars, calc>>

\* open_entry = open_entry_for_date(today); if open_entry: return
CheckInFind(r) ==
    /\ requests[r].pc = "find"
    /\ IF Truthy(open_entry_for_date(entries, requests[r].today))
       THEN Answered(r, "AlreadyCheckedIn", 0)
       ELSE /\ requests' = [requests EXCEPT ![r].pc = "prepare"]
            /\ UNCHANGED resp
    /\ UNCHANGED <<dbvars, authvars, clockvars, calc>>

\* now_time = datetime.now().strftime("%H:%M"); default_rate = get_setting(...)
CheckInPrepare(r) ==
    /\ requests[r].pc = "prepare"
    /\ requests' = [requests EXCEPT ![r].pc = "insert", ![r].now_time = NowTime,
                                    ![r].default_rate = default_rate]
    /\ UNCHANGED <<dbvars, authvars, clockvars, calc, resp>>

\* the INSERT, and the success answer
CheckInInsert(r) ==
    /\ requests[r].pc = "insert"
    /\ nextId <= MaxRows
    /\ entries' = insert_entry(entries,
                      checked_in_row(nextId, requests[r].today, requests[r].now_time,
                                     requests[r].default_rate))
    /\ nextId' = nextId + 1
    /\ Answered(r, "ok", nextId)
    /\ UNCHANGED <<default_rate, authvars, clockvars, calc>>

\* ------------------------------------------------------ specifications
\* The tracker: the web handlers that read or write work entries and the
\* default rate, the API's check-in and check-out, and the clock.
Next ==
    \/ Tick
    \/ \E good \in BOOLEAN : Login(good)
    \/ \E input \in FormRates : UpdateDefaultRate(input)
    \/ CheckIn
    \/ CheckOut
    \/ \E form \in Forms : AddRecord(form)
    \/ \E id \in RecordIds, form \in Forms : EditRecord(id, form)
    \/ \E id \in RecordIds : DeleteRecord(id)
    \/ \E good \in BOOLEAN : ApiLogin(good, 1)
    \/ \E h \in {NoToken, 1} : ApiCheckIn(h)
    \/ \E h \in {NoToken, 1} : ApiCheckOut(h)

Spec == Init /\ [][Next]_vars

\* The normal flow: only check-in and check-out requests (no manual add, edit
\* or delete), with log-in, log-out, rate changes and the clock.
NextFlow ==
    \/ Tick
    \/ \E good \in BOOLEAN : Login(good)
    \/ Logout
    \/ \E input \in FormRates : UpdateDefaultRate(input)
    \/ CheckIn
    \/ CheckOut
    \/ \E good \in BOOLEAN : ApiLogin(good, 1)
    \/ \E h \in {NoToken, 1} : ApiLogout(h)
    \/ \E h \in {NoToken, 1} : ApiCheckIn(h)
    \/ \E h \in {NoToken, 1} : ApiCheckOut(h)

SpecFlow == Init /\ [][NextFlow]_vars

\* Check-in and check-out on both surfaces over tables that manual records
\* have prepared: forms without times, with a check_in only, and with both.
CheckForms ==
    {[work_date |-> d, check_in |-> t[1], check_out |-> t[2], hourly_rate |-> NONE] :
        d \in FormDates,
        t \in {<<NULL, NULL>>, <<StrfTime(1020), NULL>>, <<StrfTime(1020), StrfTime(540)>>}}

NextCheck ==
    \/ Tick
    \/ \E good \in BOOLEAN : Login(good)
    \/ CheckIn
    \/ CheckOut
    \/ \E form \in CheckForms : AddRecord(form)
    \/ ApiLogin(TRUE, 1)
    \/ \E h \in {NoToken, 1} : ApiCheckIn(h)
    \/ \E h \in {NoToken, 1} : ApiCheckOut(h)

SpecCheck == Init /\ [][NextCheck]_vars

\* Manual records: add, edit and delete, the forms dated StartDate or the day after.
RecordForms ==
    [work_date : {IsoFormat(StartDate), IsoFormat(NextDay(StartDate))},
     check_in : FormCheckIns, check_out : FormCheckOuts, hourly_rate : RecordRates]

NextRecords ==
    \/ \E good \in BOOLEAN : Login(good)
    \/ \E form \in RecordForms : AddRecord(form)
    \/ \E id \in RecordIds, form \in RecordForms : EditRecord(id, form)
    \/ \E id \in RecordIds : DeleteRecord(id)

SpecRecords == Init /\ [][NextRecords]_vars

\* The pure function compute_total_hours, applied to pairs of HH:MM strings.
\* check_in: every minute of the day
HoursCheckIns == {StrfTime(t) : t \in 0..1439}
\* check_out: the first two minutes and the last minute of every hour
HoursCheckOuts == {StrfTime(h * 60 + m) : h \in 0..23, m \in {0, 1, 59}}

\* a pair of inputs drawn, and not yet computed
InitHours ==
    /\ Started
    /\ calc \in [check_in : HoursCheckIns, check_out : HoursCheckOuts, hours : {NONE}]

ComputeHours ==
    /\ calc.hours = NONE
    /\ calc' = [calc EXCEPT !.hours = compute_total_hours(calc.check_in, calc.check_out)]
    /\ UNCHANGED <<dbvars, authvars, clockvars, resp, requests>>

NextHours == ComputeHours

SpecHours == InitHours /\ [][NextHours]_vars

\* The monthly report over tables of manually added records.
\* months of 28, 29, 30 and 31 days, the last one ending its year
ReportMonths == {<<2023, 2>>, <<2024, 2>>, <<2024, 11>>, <<2024, 12>>}
\* for each month: its first day, its last day and the day after that
ReportDates ==
    UNION {LET first == <<ym[1], ym[2], 1>>
               last  == <<ym[1], ym[2], DaysInMonth(ym[1], ym[2])>>
           IN  {first, last, NextDay(last)} : ym \in ReportMonths}
\* "YYYY-MM"
MonthString(ym) == SubSeq(IsoFormat(<<ym[1], ym[2], 1>>), 1, 7)
\* the month parameter, when it names a month
MonthParams == {MonthString(ym) : ym \in ReportMonths}
\* record forms: no times (hours and salary NULL) or 17:00-09:00, at the default rate
ReportForms ==
    {[work_date |-> IsoFormat(d), check_in |-> t[1], check_out |-> t[2],
      hourly_rate |-> NONE] :
        d \in ReportDates, t \in {<<NULL, NULL>>, <<StrfTime(1020), StrfTime(540)>>}}

NextReport ==
    \/ Login(TRUE)
    \/ \E form \in ReportForms : AddRecord(form)
    \/ \E month \in MonthParams : Report(month)
    \/ ApiLogin(TRUE, 1)
    \/ \E month \in MonthParams : ApiReport(1, month)

SpecReport == Init /\ [][NextReport]_vars

\* The JSON API: log-in, log-out and every protected endpoint, with the clock.
NextApi ==
    \/ Tick
    \/ \E good \in BOOLEAN, token \in Tokens : ApiLogin(good, token)
    \/ \E h \in Headers : ApiLogout(h)
    \/ \E h \in Headers : ApiMe(h)
    \/ \E h \in Headers : ApiToday(h)
    \/ \E h \in Headers : ApiCheckIn(h)
    \/ \E h \in Headers : ApiCheckOut(h)
    \/ \E h \in Headers : ApiReport(h, NULL)

SpecApi == Init /\ [][NextApi]_vars

\* Requests whose input may fail to parse: the default rate, and reports of
\* a month that exists, of month 13 or 00, and of no month at all.
\* month parameters strptime rejects: "2024-13" and "2024-00"
BadMonths == {SubSeq(IsoFormat(<<2024, 2, 1>>), 1, 5) \o mm : mm \in {<<1, 3>>, <<0, 0>>}}
\* month parameters of a report request; NULL: the parameter is absent or empty
InputMonths == {MonthString(<<2023, 2>>), NULL} \cup BadMonths
\* records of February 2023 and of the month the clock is in
InputForms ==
    {[work_date |-> IsoFormat(d), check_in |-> StrfTime(1020),
      check_out |-> StrfTime(540), hourly_rate |-> NONE] :
        d \in {<<2023, 2, 28>>, StartDate}}

NextInput ==
    \/ \E good \in BOOLEAN : Login(good)
    \/ \E input \in FormRates : UpdateDefaultRate(input)
    \/ \E form \in InputForms : AddRecord(form)
    \/ \E month \in InputMonths : Report(month)
    \/ \E good \in BOOLEAN : ApiLogin(good, 1)
    \/ \E h \in {NoToken, 1}, month \in InputMonths : ApiReport(h, month)

SpecInput == Init /\ [][NextInput]_vars

\* Two check-in requests, web or API, served side by side, with the clock and
\* check-out.
NextRace ==
    \/ Tick
    \/ \E good \in BOOLEAN : Login(good)
    \/ \E good \in BOOLEAN : ApiLogin(good, 1)
    \/ CheckOut
    \/ \E r \in Requests, op \in {"check_in", "api_check_in"}, h \in {NoToken, 1} :
           CheckInBegin(r, op, h)
    \/ \E r \in Requests : CheckInFind(r)
    \/ \E r \in Requests : CheckInPrepare(r)
    \/ \E r \in Requests : CheckInInsert(r)

SpecRace == Init /\ [][NextRace]_vars

\* =================================================================== claims
\* rows of `tbl` for `date` with check_out NULL
OpenRows(tbl, date) == {r \in tbl : r.work_date = IsoFormat(date) /\ r.check_out = NULL}

\* the step just taken ran the view of a web handler (it passed login_required)
\* or the body of an API handler (it passed require_token)
Admitted == resp'.status \notin {"login_required", "unauthorized"}

\* C1: a check-in request (web /check_in or API /api/check-in) made while an
\* open entry exists for the current date is answered AlreadyCheckedIn, and
\* the work-entries table is the same after it as before.
C1_CheckInWhileOpenRejected ==
    [][ (resp'.op \in {"check_in", "api_check_in"} /\ OpenRows(entries, Today) # {})
        => /\ entries' = entries
           /\ Admitted => resp'.status = "AlreadyCheckedIn" ]_vars

\* C1 witness: both surfaces have refused a check-in for a date with an open entry
C1_Witness ==
    /\ resp.op = "api_check_in"
    /\ resp.status = "AlreadyCheckedIn"
    /\ OpenRows(entries, Today) # {}
    /\ Cardinality(entries) = 1

\* C2: a check-out request (web or API) made when no entry of the current date
\* has check_out NULL is answered NoOpenEntry and changes no row, whatever
\* entries other dates have and whatever closed entries the current date has.
C2_CheckOutWithoutOpenRejected ==
    [][ (resp'.op \in {"check_out", "api_check_out"} /\ OpenRows(entries, Today) = {})
        => /\ entries' = entries
           /\ Admitted => resp'.status = "NoOpenEntry" ]_vars

\* C2 witness: a check-out was refused while another date has an open entry
\* and the current date has a closed one
C2_Witness ==
    /\ resp.op \in {"check_out", "api_check_out"}
    /\ resp.status = "NoOpenEntry"
    /\ \E r \in entries : r.work_date # IsoFormat(Today) /\ r.check_out = NULL
    /\ \E r \in entries : r.work_date = IsoFormat(Today) /\ r.check_out # NULL

\* C3 (as claimed): every stored entry whose check_out is set has non-null
\* total_hours and daily_salary, total_hours being the elapsed hours of its own
\* check_in and check_out and daily_salary being round(total_hours * its
\* hourly_rate, 2).
C3_ClosedEntryDerivedFields ==
    \A r \in entries :
        r.check_out # NULL =>
            /\ r.total_hours # NONE
            /\ r.daily_salary # NONE
            /\ r.check_in # NULL
            /\ r.total_hours = compute_total_hours(r.check_in, r.check_out)
            /\ r.hourly_rate # NONE
            /\ r.daily_salary = daily_salary_of(r.total_hours, r.hourly_rate)

\* C4: with only check-in and check-out requests, from the empty table, every
\* work_date has at most one entry with check_out NULL.
C4_OneOpenEntryPerDate ==
    \A r, q \in entries :
        (r.work_date = q.work_date /\ r.check_out = NULL /\ q.check_out = NULL)
            => r.id = q.id

\* C4 witness: one date was checked in twice, the first entry closed in between
C4_Witness ==
    \E r, q \in entries :
        /\ r.id # q.id
        /\ r.work_date = q.work_date
        /\ r.check_out # NULL
        /\ q.check_out = NULL

\* the row a check-out step closed: open before the step, closed after it
ClosedBy(id) ==
    /\ id \in Ids(entries) /\ id \in Ids(entries')
    /\ RowOf(entries, id).check_out = NULL
    /\ RowOf(entries', id).check_out # NULL

\* C5 (as claimed): check-out computes daily_salary from the hourly_rate stored
\* on the entry it closes whenever that rate is not null, 0 included; the
\* default rate is used only for a null stored rate.
C5_CheckOutUsesStoredRate ==
    [][ (resp'.op \in {"check_out", "api_check_out"} /\ resp'.status = "ok")
        => \A id \in Ids(entries) :
              (ClosedBy(id) /\ RowOf(entries, id).hourly_rate # NONE)
                 => RowOf(entries', id).daily_salary =
                       daily_salary_of(RowOf(entries', id).total_hours,
                                       RowOf(entries, id).hourly_rate) ]_vars

\* C8: editEntry of an id that is not in the table is answered NotFound and
\* leaves every row as it was; of an id that is in the table it overwrites
\* work_date, check_in, check_out, total_hours, hourly_rate and daily_salary of
\* that row from the form and leaves every other row as it was.
C8_EditOverwritesOneRow ==
    [][ resp'.op = "edit_record" =>
          LET id == resp'.id IN
          IF ~Admitted THEN entries' = entries
          ELSE IF id \notin Ids(entries)
          THEN resp'.status = "NotFound" /\ entries' = entries
          ELSE LET form == resp'.arg
                   new  == RowOf(entries', id)
                   both == form.check_in # NULL /\ form.check_out # NULL
               IN  /\ resp'.status = "ok"
                   /\ Ids(entries') = Ids(entries)
                   /\ Cardinality(entries') = Cardinality(entries)
                   /\ \A r \in entries : r.id # id => r \in entries'
                   /\ new.work_date = form.work_date
                   /\ new.check_in = form.check_in
                   /\ new.check_out = form.check_out
                   /\ new.hourly_rate = (IF form.hourly_rate = NONE THEN default_rate
                                         ELSE form.hourly_rate)
                   /\ IF both
                      THEN /\ new.total_hours =
                                 compute_total_hours(form.check_in, form.check_out)
                           /\ new.daily_salary =
                                 daily_salary_of(new.total_hours, new.hourly_rate)
                      ELSE new.total_hours = NONE /\ new.daily_salary = NONE ]_vars

\* C8 witness: an edit has overwritten one of two stored rows
C8_Witness ==
    /\ resp.op = "edit_record"
    /\ resp.status = "ok"
    /\ Cardinality(entries) = 2
    /\ RowOf(entries, resp.id).check_out # NULL

\* C9: deleteEntry of an id that is not in the table reports no error and
\* leaves the table as it was; of an id that is in the table it removes that
\* row and no other; either way the id is absent afterwards, so a second
\* delete of the same id changes nothing.
C9_DeleteRemovesOneRow ==
    [][ resp'.op = "delete_record" =>
          LET id == resp'.id IN
          IF ~Admitted THEN entries' = entries
          ELSE /\ resp'.status = "ok"
               /\ id \notin Ids(entries) => entries' = entries
               /\ id \in Ids(entries) =>
                     /\ entries' = entries \ {RowOf(entries, id)}
                     /\ Cardinality(entries') = Cardinality(entries) - 1
               /\ id \notin Ids(entries') ]_vars

\* C9 witness: an id that was deleted before is deleted again, another row
\* being stored
C9_Witness ==
    /\ resp.op = "delete_record"
    /\ resp.status = "ok"
    /\ resp.id < nextId
    /\ resp.id \notin Ids(entries)
    /\ entries # {}

\* a stored "YYYY-MM-DD" string read back as <<year, month, day>>
DateOf(str) ==
    << str[1] * 1000 + str[2] * 100 + str[3] * 10 + str[4],
       str[6] * 10 + str[7], str[9] * 10 + str[10] >>

\* calendar order of two dates
DateLe(d, e) ==
    \/ d[1] < e[1]
    \/ d[1] = e[1] /\ d[2] < e[2]
    \/ d[1] = e[1] /\ d[2] = e[2] /\ d[3] <= e[3]

RECURSIVE SumOver(_, _)
\* the sum of column `col` over a set of rows, NULL counted as 0
SumOver(rows, col) ==
    IF rows = {} THEN 0
    ELSE LET r == CHOOSE x \in rows : TRUE
         IN  (IF r[col] = NONE THEN 0 ELSE r[col]) + SumOver(rows \ {r}, col)

\* the month parameter of a report request
MonthOf(r) == IF r.op = "api_report" THEN r.arg[2] ELSE r.arg

\* C6: for every table and every valid month, the report holds exactly the
\* entries whose work_date lies between the first and the true last day of
\* that month (28, 29, 30 or 31 days), in ascending work_date order, and its
\* totals are the sums of the returned rows' total_hours and daily_salary,
\* NULL counted as 0.
C6_MonthlyReport ==
    (resp.op \in {"report", "api_report"} /\ resp.status = "ok"
        /\ MonthOf(resp) \in {MonthString(ym) : ym \in ReportMonths})
    => LET ym    == CHOOSE x \in ReportMonths : MonthString(x) = MonthOf(resp)
           first == <<ym[1], ym[2], 1>>
           last  == <<ym[1], ym[2], DaysInMonth(ym[1], ym[2])>>
           want  == {r \in entries : /\ DateLe(first, DateOf(r.work_date))
                                     /\ DateLe(DateOf(r.work_date), last)}
           rows  == resp.body.rows
       IN  /\ resp.body.start = IsoFormat(first)
           /\ resp.body.end = IsoFormat(last)
           /\ {rows[i] : i \in 1..Len(rows)} = want
           /\ Len(rows) = Cardinality(want)
           /\ \A i, j \in 1..Len(rows) :
                 i < j => DateLe(DateOf(rows[i].work_date), DateOf(rows[j].work_date))
           /\ resp.body.total_hours = SumOver(want, "total_hours")
           /\ resp.body.total_salary = SumOver(want, "daily_salary")

\* C6 witness: a report of December 2024 (31 days) holding two rows, the later
\* one dated the 31st and inserted first, one of them without hours, while
\* the table holds no other row
C6_Witness ==
    /\ resp.op = "report"
    /\ resp.status = "ok"
    /\ MonthOf(resp) = MonthString(<<2024, 12>>)
    /\ Len(resp.body.rows) = 2
    /\ resp.body.rows[2].work_date = IsoFormat(<<2024, 12, 31>>)
    /\ resp.body.rows[2].id < resp.body.rows[1].id
    /\ resp.body.rows[1].total_hours = NONE
    /\ resp.body.total_salary > 0

\* minutes past midnight of an "HH:MM" string
ClockMinutes(str) == (str[1] * 10 + str[2]) * 60 + str[4] * 10 + str[5]

\* C7: elapsedHours is the minutes from checkIn to checkOut, checkOut moved to
\* the next day exactly when it is strictly earlier than checkIn, divided by 60
\* and rounded to 2 decimals; equal times give 0 and the result is in [0, 24).
C7_ElapsedHours ==
    calc.hours # NONE =>
        LET a    == ClockMinutes(calc.check_in)
            b    == ClockMinutes(calc.check_out)
            mins == IF b < a THEN b + 24 * 60 - a ELSE b - a
            off  == calc.hours * 60 - mins * 100
        IN  /\ -30 <= off /\ off <= 30
            /\ a = b => calc.hours = 0
            /\ 0 <= calc.hours /\ calc.hours < 2400

\* C7 witness: the overnight shift 22:00 - 06:00 computed as 8.00 hours
C7_Witness ==
    /\ calc.check_in = <<2, 2, COLON, 0, 0>>
    /\ calc.check_out = <<0, 6, COLON, 0, 0>>
    /\ calc.hours = 800

\* the endpoints behind require_token
Protected == {"api_me", "api_today", "api_check_in", "api_check_out", "api_report"}

\* the bearer token of an API request
HeaderOf(r) == IF r.op = "api_report" /\ r.status # "unauthorized" THEN r.arg[1] ELSE r.arg

\* C10: a protected API endpoint serves a request iff its bearer token was
\* returned by a successful /api/login and has not since been passed to
\* /api/logout; any other request is answered 401 unauthorized and changes
\* neither work entries nor settings; and /api/logout of one token leaves
\* every other token as it was.
C10_TokenGate ==
    [][ /\ resp'.op \in Protected =>
            /\ (resp'.status # "unauthorized") <=> (HeaderOf(resp') \in returned \ revoked)
            /\ resp'.status = "unauthorized" =>
                  /\ entries' = entries
                  /\ nextId' = nextId
                  /\ default_rate' = default_rate
        /\ resp'.op = "api_logout" =>
            \A t \in Tokens \ {resp'.arg} : (t \in TOKENS') <=> (t \in TOKENS) ]_vars

\* C10 witness: token 2 checks in after token 1, once returned, was logged out
C10_Witness ==
    /\ resp.op = "api_check_in"
    /\ resp.status = "ok"
    /\ resp.arg = 2
    /\ 1 \in returned
    /\ 1 \in revoked
    /\ entries # {}

\* C11: a report request (web /report or API /api/report) whose month parameter
\* does not parse as YYYY-MM is answered InvalidInput and carries no report;
\* a rate float() rejects, sent to /settings/rate, is answered InvalidInput and
\* leaves the default_hourly_rate setting as it was.
C11_UnparseableInputRejected ==
    [][ /\ (/\ resp'.op \in {"report", "api_report"}
            /\ Admitted
            /\ MonthOf(resp') # NULL
            /\ parse_month(MonthOf(resp')) = NULL)
           => /\ resp'.status = "InvalidInput"
              /\ resp'.body = NoReport
        /\ (/\ resp'.op = "update_default_rate"
            /\ Admitted
            /\ resp'.arg = <<NONE>>)
           => /\ resp'.status = "InvalidInput"
              /\ default_rate' = default_rate ]_vars

\* C12: two check-in requests for the same date, each a read of the open entry
\* and then an insert of its own, can both succeed and leave two open entries
\* for that date: a request whose read found no open entry inserts its row and
\* answers ok whatever the table holds by then, nothing between its read and
\* its insert looking at the table again.
C12_InsertAfterStaleRead ==
    [][ \A r \in Requests :
          (requests[r].pc = "insert" /\ requests'[r].pc = "done")
          => LET date == requests[r].today
                 row  == RowOf(entries', requests'[r].id)
             IN  /\ requests'[r].status = "ok"
                 /\ requests'[r].id \notin Ids(entries)
                 /\ requests'[r].id \in Ids(entries')
                 /\ entries' = entries \cup {row}
                 /\ OpenRows(entries', date) = OpenRows(entries, date) \cup {row} ]_vars

\* C12 witness: both requests read before either inserted, both answered ok,
\* and the table holds their two rows, both open and of the same date
C12_Witness ==
    /\ \A r \in Requests : requests[r].pc = "done" /\ requests[r].status = "ok"
    /\ requests[1].today = requests[2].today
    /\ requests[1].id # requests[2].id
    /\ {requests[1].id, requests[2].id} \subseteq Ids(OpenRows(entries, requests[1].today))
    /\ Cardinality(OpenRows(entries, requests[1].today)) = 2

\* the open entry of `date` with the greatest id
LatestOpen(tbl, date) ==
    CHOOSE r \in OpenRows(tbl, date) : \A q \in OpenRows(tbl, date) : q.id <= r.id

\* C13: after any sequence of check-ins, check-outs and manual adds, edits and
\* deletes, a check-out made while the current date has an entry with check_out
\* NULL does not fail: it sets check_out, total_hours and daily_salary on the
\* open entry of that date with the greatest id, keeps that entry's work_date,
\* check_in and hourly_rate, and leaves every other entry as it was.
C13_CheckOutClosesLatestOpen ==
    [][ (/\ resp'.op \in {"check_out", "api_check_out"}
         /\ Admitted
         /\ OpenRows(entries, Today) # {})
        => LET old == LatestOpen(entries, Today)
           IN  /\ resp'.status = "ok"
               /\ Ids(entries') = Ids(entries)
               /\ LET new == RowOf(entries', old.id)
                  IN  /\ new.check_out # NULL
                      /\ new.total_hours # NONE
                      /\ new.daily_salary # NONE
                      /\ new.work_date = old.work_date
                      /\ new.check_in = old.check_in
                      /\ new.hourly_rate = old.hourly_rate
               /\ \A r \in entries : r.id # old.id => r \in entries' ]_vars

====
